---------------------------- MODULE Spec2Model ----------------------------
(***************************************************************************)
(* A model of check_inconsistency.py: the MRREL.RRF relationship loader,   *)
(* the depth-first parent/child cycle detector and the broader-than        *)
(* contradiction detector.  The three parts are checked under their own    *)
(* specifications (SpecLoad; SpecCycles and SpecTwice; SpecBroader) that   *)
(* share this module's variables; each specification keeps the variables   *)
(* of the other parts at their initial values.                             *)
(***************************************************************************)
EXTENDS Integers, Sequences, FiniteSets, Bags, TLC

\* ------------------------------------------------------------------ bounds

\* number of lines of the input file that load_relationships reads
MaxRecords == 3

\* number of concept identifiers of the graphs handed to the detectors
NumNodes == 3

\* number of distinct edges of a graph handed to a detector
MaxEdges == 4

\* ------------------------------------------------------------- variables

VARIABLES
    pc,                 \* position of the modelled function
    \* load_relationships
    child_relations, broader_relations, repeats, reflexives, rel_kinds,
    records,            \* history: the set of records read so far
    nread,              \* number of lines read so far
    \* main (parent-child branch) and find_hierarchy_cycles
    child_links, todo, tree, treeAtCall, roots, rootIdx,
    visited, stack, trail, frames, found_cycles, seen_signatures,
    expansions,         \* history: how often each node's children were expanded
    run, firstLoops,    \* the pipeline is run twice on the same input
    \* main (broader-than branch) and identify_broader_issues
    broader_links, btTodo, bt_nodes, bt_edges, descendants_map, srcIdx,
    targetsLeft, problematic_pairs

loadVars == <<child_relations, broader_relations, repeats, reflexives,
              rel_kinds, records, nread>>

cycleVars == <<child_links, todo, tree, treeAtCall, roots, rootIdx, visited,
               stack, trail, frames, found_cycles, seen_signatures,
               expansions, run, firstLoops>>

broaderVars == <<broader_links, btTodo, bt_nodes, bt_edges, descendants_map,
                 srcIdx, targetsLeft, problematic_pairs>>

vars == <<pc, loadVars, cycleVars, broaderVars>>

\* ------------------------------------------------------- general helpers

Range(s) == {s[i] : i \in 1..Len(s)}

\* ================================================================= loader
\* A string is a sequence of tokens; a CUI, a relation code and a filler
\* field are one token each, "|" is the delimiter and "\n" the line end.

Str(tok) == <<tok>>

CUIs == {Str("A"), Str("B")}

RelCodes == {Str("CHD"), Str("PAR"), Str("RB"), Str("RN"), Str("SY")}

Filler == Str("x")

Whitespace == {" ", "\n"}

\* The records of an MRREL.RRF file: source CUI, two fillers, relation code,
\* target CUI and one more field; short (malformed) records lack the tail.
FullRecords ==
    {<<s, Filler, Filler, r, t, Filler>> : s \in CUIs, r \in RelCodes, t \in CUIs}

Records == {SubSeq(f, 1, n) : f \in FullRecords, n \in 4..6}

RECURSIVE Join(_)
Join(fs) ==
    IF Len(fs) = 0 THEN <<>>
    ELSE IF Len(fs) = 1 THEN fs[1]
    ELSE fs[1] \o <<"|">> \o Join(Tail(fs))

\* the text of a record in the file, with or without its line end
LineOf(rec, terminated) == Join(rec) \o (IF terminated THEN <<"\n">> ELSE <<>>)

RECURSIVE LStrip(_)
LStrip(s) ==
    IF Len(s) > 0 /\ Head(s) \in Whitespace THEN LStrip(Tail(s)) ELSE s

RECURSIVE RStrip(_)
RStrip(s) ==
    IF Len(s) > 0 /\ s[Len(s)] \in Whitespace
    THEN RStrip(SubSeq(s, 1, Len(s) - 1)) ELSE s

\* str.strip()
Strip(s) == RStrip(LStrip(s))

\* str.split("|")
RECURSIVE Split(_)
Split(s) ==
    IF \A i \in 1..Len(s) : s[i] # "|" THEN <<s>>
    ELSE LET i == CHOOSE j \in 1..Len(s) :
                      s[j] = "|" /\ \A k \in 1..(j - 1) : s[k] # "|"
         IN <<SubSeq(s, 1, i - 1)>> \o Split(SubSeq(s, i + 1, Len(s)))

\* every edge load_relationships can build from the records above
LoadEdges == {<<a, b>> : a \in CUIs, b \in CUIs}

\* a CHD branch that forgets to turn the edge round
ChdEdgeAsGiven(src_cui, tgt_cui) == <<src_cui, tgt_cui>>

\* edge = (tgt_cui, src_cui) of the CHD branch
ChdEdge(src_cui, tgt_cui) == <<tgt_cui, src_cui>>

\* edge = (tgt_cui, src_cui) of the RN branch
RnEdge(src_cui, tgt_cui) == <<tgt_cui, src_cui>>

\* repeats[edge] += 1
Bump(counter, edge) == [counter EXCEPT ![edge] = @ + 1]

InitLoadVars ==
    /\ child_relations = {}
    /\ broader_relations = {}
    /\ repeats = [e \in LoadEdges |-> 0]
    /\ reflexives = {}
    /\ rel_kinds = {}
    /\ records = {}
    /\ nread = 0

\* one iteration of the loop over the lines of the file
ReadLine(line) ==
    LET fields == Split(Strip(line)) IN
    IF Len(fields) < 5
    THEN UNCHANGED <<child_relations, broader_relations, repeats,
                     reflexives, rel_kinds>>
    ELSE
      LET src_cui == fields[1]
          rel_type == fields[4]
          tgt_cui == fields[5]
          edge == <<src_cui, tgt_cui>>
      IN
      /\ rel_kinds' = rel_kinds \cup {rel_type}
      /\ IF src_cui = tgt_cui
         THEN /\ reflexives' = reflexives \cup {<<src_cui, rel_type>>}
              /\ UNCHANGED <<child_relations, broader_relations, repeats>>
         ELSE
           /\ UNCHANGED reflexives
           /\ CASE rel_type = Str("CHD") ->
                     /\ child_relations' =
                            child_relations \cup {ChdEdge(src_cui, tgt_cui)}
                     /\ repeats' = Bump(repeats, ChdEdge(src_cui, tgt_cui))
                     /\ UNCHANGED broader_relations
                [] rel_type = Str("PAR") ->
                     /\ child_relations' = child_relations \cup {edge}
                     /\ repeats' = Bump(repeats, edge)
                     /\ UNCHANGED broader_relations
                [] rel_type = Str("RB") ->
                     /\ broader_relations' = broader_relations \cup {edge}
                     /\ repeats' = Bump(repeats, edge)
                     /\ UNCHANGED child_relations
                [] rel_type = Str("RN") ->
                     /\ broader_relations' =
                            broader_relations \cup {RnEdge(src_cui, tgt_cui)}
                     /\ repeats' = Bump(repeats, RnEdge(src_cui, tgt_cui))
                     /\ UNCHANGED child_relations
                [] OTHER ->
                     UNCHANGED <<child_relations, broader_relations, repeats>>

LoadLine ==
    /\ pc = "load"
    /\ nread < MaxRecords
    /\ \E rec \in Records, terminated \in BOOLEAN :
          /\ ReadLine(LineOf(rec, terminated))
          /\ records' = records \cup {rec}
    /\ nread' = nread + 1
    /\ UNCHANGED <<pc, cycleVars, broaderVars>>

\* return child_relations, broader_relations, repeats, reflexives, rel_kinds
LoadReturn ==
    /\ pc = "load"
    /\ pc' = "loaded"
    /\ UNCHANGED <<loadVars, cycleVars, broaderVars>>

\* ======================================================== cycle detector
\* Concept identifiers are interned as 1..NumNodes; their order stands for
\* the string order that sorted() uses.

Nodes == 1..NumNodes

\* load_relationships diverts src == tgt records, so its edge sets hold no
\* reflexive edge
GraphEdges == {e \in Nodes \X Nodes : e[1] # e[2]}

Graphs == {E \in SUBSET GraphEdges : Cardinality(E) <= MaxEdges}

\* A dict is the sequence of its items, in insertion order.
Keys(d) == [i \in 1..Len(d) |-> d[i].key]

HasKey(d, k) == \E i \in 1..Len(d) : d[i].key = k

Lookup(d, k) == d[CHOOSE i \in 1..Len(d) : d[i].key = k].val

\* defaultdict(list).__getitem__: a missing key is inserted with list()
Touch(d, k) == IF HasKey(d, k) THEN d ELSE Append(d, [key |-> k, val |-> <<>>])

\* tree[parent].append(child)
AppendTo(d, k, v) ==
    LET d2 == Touch(d, k) IN
    [i \in 1..Len(d2) |->
        IF d2[i].key = k THEN [d2[i] EXCEPT !.val = Append(@, v)] ELSE d2[i]]

\* trail.index(current)
Index(s, x) == CHOOSE i \in 1..Len(s) : s[i] = x /\ \A j \in 1..(i - 1) : s[j] # x

\* a loop that is the whole trail instead of its tail from idx
LoopWholeTrail(tr, current) == tr

\* loop = trail[idx:]
LoopOf(tr, current) == SubSeq(tr, Index(tr, current), Len(tr))

\* key = tuple(sorted(loop))
Signature(loop) == SortSeq(loop, LAMBDA a, b : a < b)

\* a dfs that tests visited before the stack
DfsCaseVisitedFirst(current) ==
    IF current \in visited THEN "seen"
    ELSE IF current \in stack THEN "cycle"
    ELSE "descend"

\* a dfs without the visited test
DfsCaseNoVisited(current) ==
    IF current \in stack THEN "cycle" ELSE "descend"

\* which branch of dfs a call takes: the stack test, then the visited test
DfsCase(current) ==
    IF current \in stack THEN "cycle"
    ELSE IF current \in visited THEN "seen"
    ELSE "descend"

InitCycleVars(links) ==
    /\ child_links = links
    /\ todo = links
    /\ tree = <<>>
    /\ treeAtCall = <<>>
    /\ roots = <<>>
    /\ rootIdx = 1
    /\ visited = {}
    /\ stack = {}
    /\ trail = <<>>
    /\ frames = <<>>
    /\ found_cycles = <<>>
    /\ seen_signatures = {}
    /\ expansions = [n \in Nodes |-> 0]
    /\ run = 1
    /\ firstLoops = <<>>

\* main: one iteration of "for parent, child in child_links", a set, so in
\* any order
MainAppend ==
    /\ pc = "build"
    /\ \E e \in todo :
          /\ tree' = AppendTo(tree, e[1], e[2])
          /\ todo' = todo \ {e}
    /\ UNCHANGED <<pc, child_links, treeAtCall, roots, rootIdx, visited, stack,
                   trail, frames, found_cycles, seen_signatures, expansions,
                   run, firstLoops>>
    /\ UNCHANGED <<loadVars, broaderVars>>

\* main calls find_hierarchy_cycles(tree): its locals, and list(adjacency_list)
CallFind ==
    /\ pc = "build"
    /\ todo = {}
    /\ pc' = "dfs"
    /\ treeAtCall' = tree
    /\ roots' = Keys(tree)
    /\ rootIdx' = 1
    /\ visited' = {}
    /\ stack' = {}
    /\ trail' = <<>>
    /\ frames' = <<>>
    /\ found_cycles' = <<>>
    /\ seen_signatures' = {}
    /\ expansions' = [n \in Nodes |-> 0]
    /\ UNCHANGED <<child_links, todo, tree, run, firstLoops>>
    /\ UNCHANGED <<loadVars, broaderVars>>

\* dfs(current, trail) up to its loop over the children; callerFrames are the
\* frames of the callers, the caller's loop already advanced
Dfs(current, callerFrames) ==
    CASE DfsCase(current) = "cycle" ->
           LET loop == LoopOf(trail, current)
               key == Signature(loop)
           IN
           /\ IF key \notin seen_signatures
              THEN /\ seen_signatures' = seen_signatures \cup {key}
                   /\ found_cycles' = Append(found_cycles, loop)
              ELSE UNCHANGED <<seen_signatures, found_cycles>>
           /\ frames' = callerFrames
           /\ UNCHANGED <<visited, stack, trail, tree, expansions>>
      [] DfsCase(current) = "seen" ->
           /\ frames' = callerFrames
           /\ UNCHANGED <<visited, stack, trail, tree, expansions,
                          seen_signatures, found_cycles>>
      [] OTHER ->
           /\ visited' = visited \cup {current}
           /\ stack' = stack \cup {current}
           /\ trail' = Append(trail, current)
           /\ tree' = Touch(tree, current)
           /\ expansions' = [expansions EXCEPT ![current] = @ + 1]
           /\ frames' = Append(callerFrames, [node |-> current, idx |-> 1])
           /\ UNCHANGED <<seen_signatures, found_cycles>>

\* one iteration of "for node in list(adjacency_list)"
RootNext ==
    /\ pc = "dfs"
    /\ frames = <<>>
    /\ rootIdx <= Len(roots)
    /\ rootIdx' = rootIdx + 1
    /\ IF roots[rootIdx] \notin visited
       THEN Dfs(roots[rootIdx], <<>>)
       ELSE UNCHANGED <<visited, stack, trail, tree, expansions, frames,
                        seen_signatures, found_cycles>>
    /\ UNCHANGED <<pc, child_links, todo, treeAtCall, roots, run, firstLoops>>
    /\ UNCHANGED <<loadVars, broaderVars>>

\* one iteration of "for neighbor in adjacency_list[current]" of the
\* innermost dfs call
VisitNeighbor ==
    /\ pc = "dfs"
    /\ frames # <<>>
    /\ LET top == frames[Len(frames)]
           children == Lookup(tree, top.node)
       IN
       /\ top.idx <= Len(children)
       /\ Dfs(children[top.idx],
              [frames EXCEPT ![Len(frames)].idx = top.idx + 1])
    /\ UNCHANGED <<pc, child_links, todo, treeAtCall, roots, rootIdx, run,
                   firstLoops>>
    /\ UNCHANGED <<loadVars, broaderVars>>

\* stack.remove(current)
StackRemove(current) == stack \ {current}

\* the innermost dfs call has no child left: trail.pop(), stack.remove
DfsReturn ==
    /\ pc = "dfs"
    /\ frames # <<>>
    /\ LET top == frames[Len(frames)] IN
       /\ top.idx > Len(Lookup(tree, top.node))
       /\ trail' = SubSeq(trail, 1, Len(trail) - 1)
       /\ stack' = StackRemove(top.node)
       /\ frames' = SubSeq(frames, 1, Len(frames) - 1)
    /\ UNCHANGED <<pc, child_links, todo, tree, treeAtCall, roots, rootIdx,
                   visited, found_cycles, seen_signatures, expansions, run,
                   firstLoops>>
    /\ UNCHANGED <<loadVars, broaderVars>>

\* return found_cycles
FindReturn ==
    /\ pc = "dfs"
    /\ frames = <<>>
    /\ rootIdx > Len(roots)
    /\ pc' = "done"
    /\ UNCHANGED <<cycleVars, loadVars, broaderVars>>

\* the pipeline is run again on the same input: the first run's loops are
\* kept for comparison and everything else starts afresh
Rerun ==
    /\ pc = "done"
    /\ run = 1
    /\ run' = 2
    /\ firstLoops' = found_cycles
    /\ pc' = "build"
    /\ todo' = child_links
    /\ tree' = <<>>
    /\ treeAtCall' = <<>>
    /\ roots' = <<>>
    /\ rootIdx' = 1
    /\ visited' = {}
    /\ stack' = {}
    /\ trail' = <<>>
    /\ frames' = <<>>
    /\ found_cycles' = <<>>
    /\ seen_signatures' = {}
    /\ expansions' = [n \in Nodes |-> 0]
    /\ UNCHANGED child_links
    /\ UNCHANGED <<loadVars, broaderVars>>

\* ================================================ contradiction detector
\* bt_graph is a networkx DiGraph: its nodes in insertion order (bt_nodes)
\* and its edge set (bt_edges).  The list problematic_pairs is kept as the
\* bag of its entries: their order in the list is the iteration order of the
\* graph and of the descendant sets, and nothing reads it.

Successors(E, n) == {e[2] : e \in {f \in E : f[1] = n}}

RECURSIVE Bfs(_, _, _)
Bfs(E, frontier, seen) ==
    IF frontier = {} THEN seen
    ELSE LET next == UNION {Successors(E, n) : n \in frontier} \ seen
         IN Bfs(E, next, seen \cup next)

\* descendants that count the node itself
DescendantsWithSelf(E, n) == Bfs(E, {n}, {n})

\* nx.descendants(graph, n): the nodes a breadth-first search from n
\* reaches, n itself left out
Descendants(E, n) == Bfs(E, {n}, {n}) \ {n}

\* the directed paths of exactly k edges from s to t
RECURSIVE PathsOfLen(_, _, _, _)
PathsOfLen(E, s, t, k) ==
    IF k = 0 THEN (IF s = t THEN {<<s>>} ELSE {})
    ELSE UNION {{<<s>> \o p : p \in PathsOfLen(E, v, t, k - 1)} :
                    v \in Successors(E, s)}

\* nx.shortest_path(graph, s, t) returns one of the paths of fewest edges;
\* which one depends on the adjacency order, so any of them is possible.
\* There is none when t is not reachable from s (networkx raises).
ShortestPaths(E, s, t) ==
    LET lens == {k \in 0..NumNodes : PathsOfLen(E, s, t, k) # {}} IN
    IF lens = {} THEN {}
    ELSE PathsOfLen(E, s, t, CHOOSE k \in lens : \A m \in lens : k <= m)

\* a witness that keeps the first node of the back path
WitnessPathWhole(fwd_path, back_path) == fwd_path \o back_path

\* fwd_path + back_path[1:]
WitnessPath(fwd_path, back_path) == fwd_path \o Tail(back_path)

\* source in descendants_map.get(target, set())
BackReachable(source, target) ==
    IF target \in DOMAIN descendants_map
    THEN source \in descendants_map[target] ELSE FALSE

InitBroaderVars(links) ==
    /\ broader_links = links
    /\ btTodo = links
    /\ bt_nodes = <<>>
    /\ bt_edges = {}
    /\ descendants_map = <<>>
    /\ srcIdx = 0
    /\ targetsLeft = {}
    /\ problematic_pairs = EmptyBag

\* graph.add_node of a node that may be there already
AddNode(ns, n) == IF n \in Range(ns) THEN ns ELSE Append(ns, n)

\* main: bt_graph.add_edges_from(broader_links), one edge of the set, in any
\* order
BtAddEdge ==
    /\ pc = "bbuild"
    /\ \E e \in btTodo :
          /\ bt_nodes' = AddNode(AddNode(bt_nodes, e[1]), e[2])
          /\ bt_edges' = bt_edges \cup {e}
          /\ btTodo' = btTodo \ {e}
    /\ UNCHANGED <<pc, broader_links, descendants_map, srcIdx, targetsLeft,
                   problematic_pairs>>
    /\ UNCHANGED <<loadVars, cycleVars>>

\* main calls identify_broader_issues(bt_graph): problematic_pairs and
\* descendants_map
CallIdentify ==
    /\ pc = "bbuild"
    /\ btTodo = {}
    /\ pc' = "scan"
    /\ problematic_pairs' = EmptyBag
    /\ descendants_map' =
           [n \in Range(bt_nodes) |-> Descendants(bt_edges, n)]
    /\ srcIdx' = 0
    /\ targetsLeft' = {}
    /\ UNCHANGED <<broader_links, btTodo, bt_nodes, bt_edges>>
    /\ UNCHANGED <<loadVars, cycleVars>>

\* "for source in graph": the next source and its descendants
NextSource ==
    /\ pc = "scan"
    /\ targetsLeft = {}
    /\ srcIdx < Len(bt_nodes)
    /\ srcIdx' = srcIdx + 1
    /\ targetsLeft' = descendants_map[bt_nodes[srcIdx + 1]]
    /\ UNCHANGED <<pc, broader_links, btTodo, bt_nodes, bt_edges,
                   descendants_map, problematic_pairs>>
    /\ UNCHANGED <<loadVars, cycleVars>>

\* one iteration of "for target in descendants_map[source]", a set, so in
\* any order
NextTarget ==
    /\ pc = "scan"
    /\ \E target \in targetsLeft :
          LET source == bt_nodes[srcIdx] IN
          /\ targetsLeft' = targetsLeft \ {target}
          /\ IF BackReachable(source, target)
             THEN \E fwd_path \in ShortestPaths(bt_edges, source, target),
                     back_path \in ShortestPaths(bt_edges, target, source) :
                     problematic_pairs' =
                         problematic_pairs (+)
                         SetToBag({[from |-> source, to |-> target,
                                    path |-> WitnessPath(fwd_path, back_path)]})
             ELSE UNCHANGED problematic_pairs
    /\ UNCHANGED <<pc, broader_links, btTodo, bt_nodes, bt_edges,
                   descendants_map, srcIdx>>
    /\ UNCHANGED <<loadVars, cycleVars>>

\* return problematic_pairs
IdentifyReturn ==
    /\ pc = "scan"
    /\ targetsLeft = {}
    /\ srcIdx = Len(bt_nodes)
    /\ pc' = "bdone"
    /\ UNCHANGED <<broaderVars, loadVars, cycleVars>>

\* ========================================================= specifications

InitLoad ==
    /\ pc = "load"
    /\ InitLoadVars
    /\ InitCycleVars({})
    /\ InitBroaderVars({})

NextLoad == LoadLine \/ LoadReturn

SpecLoad == InitLoad /\ [][NextLoad]_vars

InitCycles ==
    /\ pc = "build"
    /\ InitLoadVars
    /\ \E links \in Graphs : InitCycleVars(links)
    /\ InitBroaderVars({})

NextCycles ==
    \/ MainAppend
    \/ CallFind
    \/ RootNext
    \/ VisitNeighbor
    \/ DfsReturn
    \/ FindReturn

\* one run of the parent-child check
SpecCycles == InitCycles /\ [][NextCycles]_vars

\* the interpreter runs the single-threaded detector to its end
FairSpecCycles == SpecCycles /\ WF_vars(NextCycles)

NextTwice ==
    \/ MainAppend
    \/ CallFind
    \/ RootNext
    \/ VisitNeighbor
    \/ DfsReturn
    \/ FindReturn
    \/ Rerun

\* two runs of the parent-child check on the same input
SpecTwice == InitCycles /\ [][NextTwice]_vars

InitBroader ==
    /\ pc = "bbuild"
    /\ InitLoadVars
    /\ InitCycleVars({})
    /\ \E links \in Graphs : InitBroaderVars(links)

NextBroader ==
    \/ BtAddEdge
    \/ CallIdentify
    \/ NextSource
    \/ NextTarget
    \/ IdentifyReturn

SpecBroader == InitBroader /\ [][NextBroader]_vars

\* ================================================================ claims

\* ---- definitions the claims are stated with (none of them is used by the
\* ---- model above)

RECURSIVE TransitiveClosure(_)
TransitiveClosure(R) ==
    LET R2 == R \cup {<<x[1][1], x[2][2]>> :
                          x \in {y \in R \X R : y[1][2] = y[2][1]}}
    IN IF R2 = R THEN R ELSE TransitiveClosure(R2)

\* t is reachable from s and s from t, s and t distinct; tc is the
\* transitive closure of the graph
MutuallyReachable(tc, s, t) ==
    /\ s # t
    /\ <<s, t>> \in tc
    /\ <<t, s>> \in tc

\* minimum edge count of a directed path from s to t, by levels; -1 if none
RECURSIVE LevelOf(_, _, _, _, _)
LevelOf(E, frontier, seen, t, d) ==
    IF t \in frontier THEN d
    ELSE IF frontier = {} THEN 0 - 1
    ELSE LET next == {e[2] : e \in {f \in E : f[1] \in frontier}} \ seen
         IN LevelOf(E, next, seen \cup next, t, d + 1)

Dist(E, s, t) == LevelOf(E, {s}, {s}, t, 0)

IsWalk(E, p) == \A j \in 1..(Len(p) - 1) : <<p[j], p[j + 1]>> \in E

Occurrences(p, x) == Cardinality({j \in 1..Len(p) : p[j] = x})

\* the simple directed cycles of a graph, as node sequences
SimpleCycles(E) ==
    {p \in UNION {[1..k -> Nodes] : k \in 1..NumNodes} :
        /\ \A i, j \in 1..Len(p) : i # j => p[i] # p[j]
        /\ IsWalk(E, p)
        /\ <<p[Len(p)], p[1]>> \in E}

CycleEdges(p) ==
    {<<p[j], p[j + 1]>> : j \in 1..(Len(p) - 1)} \cup {<<p[Len(p)], p[1]>>}

Acyclic(E) == \A n \in Nodes : <<n, n>> \notin TransitiveClosure(E)

NodesOf(E) == {e[1] : e \in E} \cup {e[2] : e \in E}

NodeSets(loops) == {Range(loops[i]) : i \in 1..Len(loops)}

\* the entries of problematic_pairs, and how often a set of them occurs
Entries == BagToSet(problematic_pairs)

RECURSIVE Copies(_)
Copies(S) ==
    IF S = {} THEN 0
    ELSE LET x == CHOOSE y \in S : TRUE
         IN CopiesIn(x, problematic_pairs) + Copies(S \ {x})

PairCount(s, t) == Copies({e \in Entries : e.from = s /\ e.to = t})

\* ---- C1 (SpecBroader)
\* C1: identify_broader_issues reports (from = s, to = t) only for distinct,
\* mutually reachable nodes and never twice; when it returns, every such
\* ordered pair is reported exactly once, so a strongly connected component
\* of k > 1 nodes contributes k*(k-1) entries.
C1_MutualPairsOnce ==
    LET tc == TransitiveClosure(broader_links) IN
    /\ \A e \in Entries : MutuallyReachable(tc, e.from, e.to)
    /\ \A s, t \in Nodes : PairCount(s, t) <= 1
    /\ pc = "bdone" =>
          /\ \A s, t \in Nodes :
                PairCount(s, t) = IF MutuallyReachable(tc, s, t) THEN 1 ELSE 0
          /\ \A s \in Nodes :
                LET comp == {s} \cup {t \in Nodes : MutuallyReachable(tc, s, t)}
                    k == Cardinality(comp)
                IN k > 1 =>
                     Copies({e \in Entries : e.from \in comp /\ e.to \in comp})
                         = k * (k - 1)

\* a three-node cycle has been scanned: six contradictions
C1_Witness ==
    /\ pc = "bdone"
    /\ Cardinality(broader_links) = 3
    /\ BagCardinality(problematic_pairs) = 6

\* ---- C2 (SpecBroader)
\* C2: the path of every reported contradiction (s, t) is a directed walk of
\* the broader-than graph from s back to s that holds t exactly once and has
\* dist(s,t) + dist(t,s) edges.
C2_WitnessPathShortest ==
    \A e \in Entries :
        LET s == e.from
            t == e.to
            p == e.path
        IN /\ Len(p) >= 1
           /\ p[1] = s
           /\ p[Len(p)] = s
           /\ IsWalk(broader_links, p)
           /\ Occurrences(p, t) = 1
           /\ Len(p) - 1 = Dist(broader_links, s, t) + Dist(broader_links, t, s)

\* a contradiction is reported whose forward path is one edge although a
\* two-edge path from s to t exists as well
C2_Witness ==
    \E e \in Entries :
        /\ <<e.from, e.to>> \in broader_links
        /\ \E m \in Nodes \ {e.from, e.to} :
              <<e.from, m>> \in broader_links /\ <<m, e.to>> \in broader_links
        /\ Len(e.path) = 3

\* ---- C3 (SpecCycles)
\* C3: when find_hierarchy_cycles returns, every simple directed cycle of the
\* hierarchy graph has a returned cycle with the same node set.
C3_AllCyclesFound ==
    pc = "done" =>
        \A c \in SimpleCycles(child_links) :
            \E i \in 1..Len(found_cycles) : Range(found_cycles[i]) = Range(c)

\* ---- C4 (SpecCycles)
\* C4: find_hierarchy_cycles returns the empty list iff the graph has no
\* directed cycle, and for a graph that is one simple cycle it returns
\* exactly one cycle, holding all the nodes.
C4_EmptyIffAcyclic ==
    pc = "done" =>
        /\ (found_cycles = <<>>) <=> Acyclic(child_links)
        /\ (\E c \in SimpleCycles(child_links) : CycleEdges(c) = child_links)
              => /\ Len(found_cycles) = 1
                 /\ Range(found_cycles[1]) = NodesOf(child_links)

\* the detector has returned one cycle for a graph that is a 3-node cycle
C4_Witness ==
    /\ pc = "done"
    /\ Cardinality(child_links) = 3
    /\ \E c \in SimpleCycles(child_links) : CycleEdges(c) = child_links
    /\ Len(found_cycles) = 1

\* ---- C5 (SpecLoad)
\* a record that can contribute an edge: at least 5 fields, source # target
Contributes(rec) == Len(rec) >= 5 /\ rec[1] # rec[5]

\* C5: the hierarchy edge set holds (p, c) iff a contributing record is CHD
\* with (source, target) = (c, p) or PAR with (p, c); the broader-than edge
\* set holds (a, b) iff a contributing record is RB with (a, b) or RN with
\* (b, a).
C5_EdgesFromRecords ==
    \A a \in CUIs, b \in CUIs :
        /\ <<a, b>> \in child_relations <=>
              \E rec \in records :
                  /\ Contributes(rec)
                  /\ \/ rec[4] = Str("CHD") /\ rec[1] = b /\ rec[5] = a
                     \/ rec[4] = Str("PAR") /\ rec[1] = a /\ rec[5] = b
        /\ <<a, b>> \in broader_relations <=>
              \E rec \in records :
                  /\ Contributes(rec)
                  /\ \/ rec[4] = Str("RB") /\ rec[1] = a /\ rec[5] = b
                     \/ rec[4] = Str("RN") /\ rec[1] = b /\ rec[5] = a

\* a CHD record, a short record and a reflexive record have been read
C5_Witness ==
    /\ pc = "loaded"
    /\ \E rec \in records : Contributes(rec) /\ rec[4] = Str("CHD")
    /\ \E rec \in records : Len(rec) = 4 /\ rec[4] = Str("PAR") /\ rec[1] # Str("A")
    /\ \E rec \in records : Len(rec) >= 5 /\ rec[1] = rec[5] /\ rec[4] = Str("RN")
    /\ Cardinality(child_relations) = 1
    /\ broader_relations = {}

\* ---- C6 (SpecLoad)
\* C6: no directed edge is in both the hierarchy edge set and the
\* broader-than edge set.
C6_GraphsDisjoint == child_relations \cap broader_relations = {}

\* ---- C7 (SpecCycles)
\* C7: the second run of the detector on the same hierarchy edges returns
\* cycles with the same node sets as the first run.
C7_SameCyclesEachRun ==
    (pc = "done" /\ run = 2) => NodeSets(found_cycles) = NodeSets(firstLoops)

\* ---- C8 (SpecCycles)
\* C8: when find_hierarchy_cycles returns, the adjacency mapping has the key
\* set and the child lists it had at the call.
C8_TreeNotMutated ==
    pc = "done" =>
        /\ Range(Keys(tree)) = Range(Keys(treeAtCall))
        /\ \A k \in Range(Keys(treeAtCall)) :
              Lookup(tree, k) = Lookup(treeAtCall, k)

\* ---- C9 (SpecCycles)
\* C9: every cycle found is a simple directed cycle of the hierarchy graph:
\* distinct nodes of the graph, each consecutive pair an edge, the last node
\* with an edge to the first; with no reflexive edge, none has one node.
C9_CyclesAreSimpleCycles ==
    \A i \in 1..Len(found_cycles) :
        LET loop == found_cycles[i] IN
        /\ Len(loop) >= 1
        /\ Range(loop) \subseteq NodesOf(child_links)
        /\ \A j, k \in 1..Len(loop) : j # k => loop[j] # loop[k]
        /\ IsWalk(child_links, loop)
        /\ <<loop[Len(loop)], loop[1]>> \in child_links
        /\ (\A n \in Nodes : <<n, n>> \notin child_links) => Len(loop) >= 2

\* a two-node cycle has just been cut out of a trail of three nodes
C9_Witness ==
    /\ pc = "dfs"
    /\ Len(trail) = 3
    /\ Len(found_cycles) = 1
    /\ Len(found_cycles[1]) = 2

\* ---- C10 (FairSpecCycles)
C10_Safety ==
    /\ \A n \in Nodes : expansions[n] <= 1
    /\ \A n \in Nodes : expansions[n] = 1 <=> (pc \in {"dfs", "done"} /\ n \in visited)
    /\ stack = Range(trail)
    /\ pc = "done" => (stack = {} /\ trail = <<>>)

\* C10: find_hierarchy_cycles terminates; every node is added to visited and
\* expanded at most once, the recursion stack is always the set of the nodes
\* on the trail, and both are empty when the detector has finished.
C10_Terminates == [](C10_Safety) /\ ((pc = "dfs") ~> (pc = "done"))

\* the detector has finished on a cyclic graph in which a node with two
\* parents was reached again after its expansion
C10_Witness ==
    /\ pc = "done"
    /\ ~Acyclic(child_links)
    /\ \A n \in Nodes : expansions[n] = 1
    /\ \E n \in Nodes : Cardinality({e \in child_links : e[2] = n}) = 2
    /\ stack = {}

=============================================================================
